---- MODULE Spec2Model ----
(***************************************************************************)
(* MaskedView (src/js/MaskedView.js): a React component whose render()     *)
(* picks one of three output trees (plain View, native RNCMaskedView, SVG  *)
(* mask composition) and logs an "invalid maskElement" error at most once  *)
(* per instance through the flag _hasWarnedInvalidRenderMask.              *)
(*                                                                         *)
(* JavaScript values are records carrying a `typeof` field; React elements *)
(* are records carrying `symbol` (the $$typeof tag), `type`, `props` and   *)
(* `children` (the JSX child list).  Strings that the program only passes  *)
(* around are TLA+ strings; the SVG id and its url(#...) reference are     *)
(* character tuples so that the reference can be resolved by parsing.      *)
(***************************************************************************)
EXTENDS Integers, Sequences, FiniteSets, TLC

\* Bound: renders (finished or in progress) per instance.
MaxRenders == 3
\* Bound: nesting depth of render calls when the diagnostic sink calls back.
MaxDepth == 2

\* The component instances mounted side by side in one document, in
\* document order.
Instances == <<"left", "right">>
InstanceIds == {Instances[n] : n \in DOMAIN Instances}

VARIABLES
    RNCMaskedView,               \* module constant, line 15: component name or "null"
    hasWarnedInvalidRenderMask,  \* per instance field, line 57
    console,                     \* console.error calls so far, oldest first
    output,                      \* per instance: what its last render returned
    thisProps,                   \* per instance: this.props of its latest render call
    renders,                     \* per instance: history of finished renders
    stack                        \* render calls in progress, innermost last

vars == <<RNCMaskedView, hasWarnedInvalidRenderMask, console, output, thisProps,
          renders, stack>>

-----------------------------------------------------------------------------
(* JavaScript values *)

Undefined == [typeof |-> "undefined"]
Null == [typeof |-> "object", isNull |-> TRUE]
Str(s) == [typeof |-> "string", value |-> s]
Obj(fields) == [typeof |-> "object", isNull |-> FALSE, isArray |-> FALSE, fields |-> fields]
Arr(items) == [typeof |-> "object", isNull |-> FALSE, isArray |-> TRUE, items |-> items]

REACT_ELEMENT_TYPE == "react.element"

\* An element made by the caller; render() treats it as opaque.
CallerElement(key) ==
    [typeof |-> "object", isNull |-> FALSE, symbol |-> REACT_ELEMENT_TYPE,
     type |-> "Text", key |-> key]

\* React.createElement(type, props, ...children) as JSX builds it.
createElement(type, props, children) ==
    [typeof |-> "object", isNull |-> FALSE, symbol |-> REACT_ELEMENT_TYPE,
     type |-> type, props |-> props, children |-> children]

\* React.isValidElement(object), line 62.
isValidElement(object) ==
    /\ object.typeof = "object"
    /\ object # Null
    /\ "symbol" \in DOMAIN object
    /\ object.symbol = REACT_ELEMENT_TYPE

\* Reading a property of this.props: a missing key reads as undefined.
Get(props, k) == IF k \in DOMAIN props THEN props[k] ELSE Undefined

\* const { maskElement, children, ...otherViewProps } = this.props, line 60.
RestProps(props) == [k \in DOMAIN props \ {"maskElement", "children"} |-> props[k]]

\* { ...a, ...b }: the keys of b win.
Spread(a, b) ==
    [k \in DOMAIN a \cup DOMAIN b |-> IF k \in DOMAIN b THEN b[k] ELSE a[k]]

NoProps == [k \in {} |-> Undefined]

-----------------------------------------------------------------------------
(* The output trees of render(), lines 59-115 *)

\* StyleSheet.absoluteFill of react-native, used at line 77.
absoluteFill ==
    Obj([position |-> "absolute", left |-> 0, right |-> 0, top |-> 0, bottom |-> 0])

\* The literal of line 95, id="mask", and of line 101, mask="url(#mask)".
MaskId == <<"m", "a", "s", "k">>
MaskRef == <<"u", "r", "l", "(", "#", "m", "a", "s", "k", ")">>

\* Line 71: <View {...otherViewProps}>{children}</View>
UnmaskedTree(props) ==
    createElement("View", RestProps(props), <<Get(props, "children")>>)

\* Lines 77-79: the overlay holding maskElement.
Overlay(maskElement) ==
    createElement("View",
                  [pointerEvents |-> Str("none"), style |-> absoluteFill],
                  <<maskElement>>)

\* Mutant: the two children of the native container in the other order.
NativeChildrenSwapped(props) ==
    <<Get(props, "children"), Overlay(Get(props, "maskElement"))>>

\* Lines 75-82: <RNCMaskedView {...otherViewProps}> overlay, children.
NativeChildren(props) ==
    <<Overlay(Get(props, "maskElement")), Get(props, "children")>>

NativeTree(props) ==
    createElement(RNCMaskedView, RestProps(props), NativeChildren(props))

\* Lines 95-99: the mask definition.
MaskDefinition(maskElement) ==
    createElement("Mask",
        [id |-> MaskId,
         style |-> Obj([flex |-> 1, width |-> "100%", height |-> "100%"])],
        <<createElement("ForeignObject",
            [style |-> Obj([flex |-> 1, width |-> "100%", height |-> "100%"])],
            <<maskElement>>)>>)

\* Lines 100-111: the foreign object that is drawn through the mask.
MaskConsumer(children) ==
    createElement("ForeignObject",
        [mask |-> MaskRef,
         style |-> Obj([flex |-> 1, width |-> "100%", height |-> "100%",
                        backgroundColor |-> "red", overflowY |-> "auto"])],
        <<children>>)

\* Lines 87-93: the props of the outer View of the SVG composition; the
\* style attribute written after the spread replaces the spread's style.
VectorRootProps(otherViewProps) ==
    Spread(otherViewProps,
           [style |-> Arr(<<Get(otherViewProps, "style"),
                            Obj([flex |-> 1, width |-> "100%",
                                 backgroundColor |-> "red"])>>)])

\* Mutant: maskElement and children put in each other's place.
VectorTreeSwapped(props) ==
    createElement("View", VectorRootProps(RestProps(props)),
        <<createElement("Svg",
            [style |-> Obj([flex |-> 1, width |-> "100%", backgroundColor |-> "blue"])],
            <<MaskDefinition(Get(props, "children")),
              MaskConsumer(Get(props, "maskElement"))>>)>>)

\* Lines 86-114.
VectorTree(props) ==
    createElement("View", VectorRootProps(RestProps(props)),
        <<createElement("Svg",
            [style |-> Obj([flex |-> 1, width |-> "100%", backgroundColor |-> "blue"])],
            <<MaskDefinition(Get(props, "maskElement")),
              MaskConsumer(Get(props, "children"))>>)>>)

\* Mutant: the native branch tested before the validity of maskElement.
renderResultNativeFirst(self, props) ==
    IF RNCMaskedView # "null" THEN NativeTree(props)
    ELSE IF ~isValidElement(Get(props, "maskElement")) THEN UnmaskedTree(props)
    ELSE VectorTree(props)

\* Mutant: an instance that has warned keeps rendering unmasked.
renderResultSticky(self, props) ==
    IF \/ ~isValidElement(Get(props, "maskElement"))
       \/ hasWarnedInvalidRenderMask[self]
    THEN UnmaskedTree(props)
    ELSE IF RNCMaskedView # "null" THEN NativeTree(props)
    ELSE VectorTree(props)

\* What render() returns for `this` = self with this.props = props.
renderResult(self, props) ==
    IF ~isValidElement(Get(props, "maskElement")) THEN UnmaskedTree(props)
    ELSE IF RNCMaskedView # "null" THEN NativeTree(props)
    ELSE VectorTree(props)

-----------------------------------------------------------------------------
(* Inputs *)

\* A key the caller leaves out of the props.
Absent == [absent |-> TRUE]

ValidMasks == {CallerElement("maskA"), CallerElement("maskB")}
InvalidMasks == {Absent, Null, Str("mask"), Obj([uri |-> "mask.png"])}
MaskInputs == ValidMasks \cup InvalidMasks
\* What the caller passes besides maskElement: nothing, or children with a
\* custom style and a testID.
RestInputs ==
    {[children |-> Absent, style |-> Absent, testID |-> Absent],
     [children |-> CallerElement("content"),
      style |-> Obj([backgroundColor |-> "green"]),
      testID |-> Str("masked")]}

Optional(k, v) == IF v = Absent THEN NoProps ELSE [x \in {k} |-> v]

MakeProps(m, c, s, t) ==
    Spread(Spread(Optional("maskElement", m), Optional("children", c)),
           Spread(Optional("style", s), Optional("testID", t)))

PropsInputs ==
    {MakeProps(m, r.children, r.style, r.testID) : m \in MaskInputs, r \in RestInputs}

\* The props used when the diagnostic sink calls back into render.
ReentrantInputs ==
    {MakeProps(m, Absent, Absent, Absent) : m \in {Absent, CallerElement("maskA")}}

-----------------------------------------------------------------------------
(* State *)

NotRendered == [rendered |-> FALSE]

\* The text of lines 65-66 (without the backquotes around maskElement).
Message ==
    "MaskedView: Invalid maskElement prop was passed to MaskedView. Expected a React Element. No mask will render."

\* Lines 15-17: RNCMaskedView is the native component when
\* requireNativeComponent exists and null otherwise; fixed at module load.
\* Line 57: every instance starts with the flag false.
Init ==
    /\ RNCMaskedView \in {"RNCMaskedView", "null"}
    /\ hasWarnedInvalidRenderMask = [i \in InstanceIds |-> FALSE]
    /\ console = <<>>
    /\ output = [i \in InstanceIds |-> NotRendered]
    /\ thisProps = [i \in InstanceIds |-> NoProps]
    /\ renders = [i \in InstanceIds |-> <<>>]
    /\ stack = <<>>

\* Mutant: the flag is shared by all instances (a static field).
shouldWarnShared(self, maskElement) ==
    /\ ~isValidElement(maskElement)
    /\ \A i \in InstanceIds : ~hasWarnedInvalidRenderMask[i]

\* Lines 62-63: the two tests that guard console.error.
shouldWarn(self, maskElement) ==
    /\ ~isValidElement(maskElement)
    /\ ~hasWarnedInvalidRenderMask[self]

\* Mutant: line 68 is missing, the flag is never set.
warnedAfterNever(self, warn) == hasWarnedInvalidRenderMask[self]

\* Mutant: line 68 moved out of the validity test, every render sets it.
warnedAfterAlways(self, warn) == TRUE

\* Line 68, inside the guarded block: the flag after the block.
warnedAfter(self, warn) ==
    IF warn THEN TRUE ELSE hasWarnedInvalidRenderMask[self]

\* Lines 64-67: console.error(Message); `self` records the caller.
consoleError(self) == Append(console, [message |-> Message, self |-> self])

RenderRecord(props, warn) ==
    [valid |-> isValidElement(Get(props, "maskElement")),
     emitted |-> IF warn THEN 1 ELSE 0]

\* One whole render() call, lines 59-115, the host having set this.props:
\* JavaScript runs it to completion when console.error does not call back.
render(self, props) ==
    LET warn == shouldWarn(self, Get(props, "maskElement")) IN
    /\ stack = <<>>
    /\ Len(renders[self]) < MaxRenders
    /\ thisProps' = [thisProps EXCEPT ![self] = props]
    /\ console' = IF warn THEN consoleError(self) ELSE console
    /\ hasWarnedInvalidRenderMask' =
          [hasWarnedInvalidRenderMask EXCEPT ![self] = warnedAfter(self, warn)]
    /\ output' = [output EXCEPT ![self] = renderResult(self, props)]
    /\ renders' = [renders EXCEPT ![self] = Append(@, RenderRecord(props, warn))]
    /\ UNCHANGED <<RNCMaskedView, stack>>

Next == \E self \in InstanceIds, props \in PropsInputs : render(self, props)

Spec == Init /\ [][Next]_vars

-----------------------------------------------------------------------------
(* The same render(), statement by statement, for a diagnostic sink that  *)
(* calls render again before it returns (console.error is a replaceable   *)
(* global; render is a public method).  A frame is one call in progress.  *)

Top == stack[Len(stack)]

SetTop(frame) == [stack EXCEPT ![Len(stack)] = frame]

InProgress(self) == Cardinality({n \in DOMAIN stack : stack[n].self = self})

\* render() is entered: by the host when nothing runs, or by the sink
\* while the innermost call waits inside console.error.
call(self, props) ==
    /\ IF stack = <<>> THEN TRUE ELSE Top.pc = "sink"
    /\ Len(stack) < MaxDepth
    /\ Len(renders[self]) + InProgress(self) < MaxRenders
    /\ stack' = Append(stack, [self |-> self, props |-> props, pc |-> "validate",
                               warn |-> FALSE])
    /\ thisProps' = [thisProps EXCEPT ![self] = props]
    /\ UNCHANGED <<RNCMaskedView, hasWarnedInvalidRenderMask, console, output, renders>>

\* Lines 60-63: destructure, then test validity and the flag.
validate ==
    /\ stack # <<>>
    /\ Top.pc = "validate"
    /\ LET warn == shouldWarn(Top.self, Get(Top.props, "maskElement")) IN
         stack' = SetTop([Top EXCEPT !.pc = IF warn THEN "console.error" ELSE "return",
                                     !.warn = warn])
    /\ UNCHANGED <<RNCMaskedView, hasWarnedInvalidRenderMask, console, output,
                   thisProps, renders>>

\* Lines 64-67: console.error is called; the sink now runs.
callConsoleError ==
    /\ stack # <<>>
    /\ Top.pc = "console.error"
    /\ console' = consoleError(Top.self)
    /\ stack' = SetTop([Top EXCEPT !.pc = "sink"])
    /\ UNCHANGED <<RNCMaskedView, hasWarnedInvalidRenderMask, output, thisProps, renders>>

\* console.error returns, then line 68 sets the flag.
setWarned ==
    /\ stack # <<>>
    /\ Top.pc = "sink"
    /\ hasWarnedInvalidRenderMask' =
          [hasWarnedInvalidRenderMask EXCEPT ![Top.self] = warnedAfter(Top.self, Top.warn)]
    /\ stack' = SetTop([Top EXCEPT !.pc = "return"])
    /\ UNCHANGED <<RNCMaskedView, console, output, thisProps, renders>>

\* Lines 71, 75-82, 86-114: the call returns its tree.
return ==
    /\ stack # <<>>
    /\ Top.pc = "return"
    /\ output' = [output EXCEPT ![Top.self] = renderResult(Top.self, Top.props)]
    /\ renders' = [renders EXCEPT ![Top.self] = Append(@, RenderRecord(Top.props, Top.warn))]
    /\ stack' = SubSeq(stack, 1, Len(stack) - 1)
    /\ UNCHANGED <<RNCMaskedView, hasWarnedInvalidRenderMask, console, thisProps>>

NextReentrant ==
    \/ \E self \in InstanceIds, props \in ReentrantInputs : call(self, props)
    \/ validate
    \/ callConsoleError
    \/ setWarned
    \/ return

SpecReentrant == Init /\ [][NextReentrant]_vars

-----------------------------------------------------------------------------
(* Reading trees and histories *)

RECURSIVE Preorder(_), PreorderAll(_)

\* The nodes of a tree, root first; a caller's element or value is a leaf.
Preorder(node) ==
    IF "children" \in DOMAIN node
    THEN <<node>> \o PreorderAll(node.children)
    ELSE <<node>>

PreorderAll(nodes) ==
    IF Len(nodes) = 0 THEN <<>>
    ELSE Preorder(Head(nodes)) \o PreorderAll(Tail(nodes))

TypeOf(node) == IF "type" \in DOMAIN node THEN node.type ELSE "none"

IsBuilt(node) == "children" \in DOMAIN node

\* The positions in a tree's preorder that satisfy a test.
MaskDefinitionsOf(tree) ==
    {n \in DOMAIN Preorder(tree) : TypeOf(Preorder(tree)[n]) = "Mask"}

MaskConsumersOf(tree) ==
    {n \in DOMAIN Preorder(tree) :
        /\ IsBuilt(Preorder(tree)[n])
        /\ "mask" \in DOMAIN Preorder(tree)[n].props}

OverlaysOf(tree) ==
    {n \in DOMAIN Preorder(tree) :
        /\ IsBuilt(Preorder(tree)[n])
        /\ "pointerEvents" \in DOMAIN Preorder(tree)[n].props}

Occurrences(value, tree) ==
    Cardinality({n \in DOMAIN Preorder(tree) : Preorder(tree)[n] = value})

\* The id a url(#id) reference names, as the SVG engine resolves the mask
\* attribute of line 101; the empty id when the text is no such reference.
IriTarget(ref) ==
    IF /\ Len(ref) > 6
       /\ SubSeq(ref, 1, 5) = <<"u", "r", "l", "(", "#">>
       /\ ref[Len(ref)] = ")"
    THEN SubSeq(ref, 6, Len(ref) - 1)
    ELSE <<>>

Rendered(i) == output[i] # NotRendered

MaskOf(i) == Get(thisProps[i], "maskElement")
ChildrenOf(i) == Get(thisProps[i], "children")

\* The caller passed an invalid maskElement: left out (undefined), null, a
\* primitive or a plain object.
InvalidInput(i) == MaskOf(i) \in (InvalidMasks \ {Absent}) \cup {Undefined}
ValidInput(i) == MaskOf(i) \in ValidMasks

Diagnostics(i) == Cardinality({n \in DOMAIN console : console[n].self = i})

InvalidRenders(i) == {n \in DOMAIN renders[i] : ~renders[i][n].valid}

FirstInvalid(i) ==
    CHOOSE n \in InvalidRenders(i) : \A m \in InvalidRenders(i) : n <= m

RECURSIVE EmittedUpTo(_, _)
EmittedUpTo(i, n) ==
    IF n = 0 THEN 0 ELSE renders[i][n].emitted + EmittedUpTo(i, n - 1)

HasVectorNodes(tree) ==
    \E n \in DOMAIN Preorder(tree) :
        TypeOf(Preorder(tree)[n]) \in {"Svg", "Mask", "ForeignObject"}

-----------------------------------------------------------------------------
(* Claims *)

\* C1: an instance emits at most one diagnostic over any sequence of
\* renders; once it has rendered an invalid maskElement it has emitted
\* exactly one, during the first such render, and none in any other render.
C1_AtMostOneDiagnostic ==
    \A i \in InstanceIds :
        /\ Diagnostics(i) <= 1
        /\ Diagnostics(i) = EmittedUpTo(i, Len(renders[i]))
        /\ InvalidRenders(i) # {} =>
              /\ Diagnostics(i) = 1
              /\ renders[i][FirstInvalid(i)].emitted = 1
              /\ \A n \in DOMAIN renders[i] :
                    n # FirstInvalid(i) => renders[i][n].emitted = 0

\* C1 witness: a valid render, then two invalid ones, one diagnostic.
C1_Witness ==
    \E i \in InstanceIds :
        /\ Len(renders[i]) = 3
        /\ renders[i][1].valid /\ ~renders[i][2].valid /\ ~renders[i][3].valid
        /\ Diagnostics(i) = 1

\* C2: for an invalid maskElement, with or without the native component
\* and whatever the flag, render returns the plain container: a View with
\* exactly the passthrough props and children as its only content, and no
\* mask node, native container or overlay anywhere in it.
C2_InvalidRendersUnmasked ==
    \A i \in InstanceIds :
        Rendered(i) /\ InvalidInput(i) =>
            /\ IsBuilt(output[i])
            /\ output[i].type = "View"
            /\ output[i].props = RestProps(thisProps[i])
            /\ output[i].children = <<ChildrenOf(i)>>
            /\ Len(Preorder(output[i])) = 2
            /\ ~HasVectorNodes(output[i])
            /\ OverlaysOf(output[i]) = {}
            /\ \A n \in DOMAIN Preorder(output[i]) :
                  TypeOf(Preorder(output[i])[n]) # "RNCMaskedView"

\* C2 witness: the native component exists, the flag was already set by
\* an earlier render, and a render with a null maskElement and passthrough
\* props has returned.
C2_Witness ==
    \E i \in InstanceIds :
        /\ RNCMaskedView # "null"
        /\ Len(renders[i]) >= 2
        /\ ~renders[i][1].valid
        /\ MaskOf(i) = Null
        /\ "style" \in DOMAIN thisProps[i]
        /\ Rendered(i)

\* C3: for a valid maskElement with the native component available, the
\* output is the native container with exactly two children in order: an
\* overlay View with pointerEvents none, absolutely positioned on all four
\* edges and holding maskElement, then children; and no SVG node is ever
\* in an output while the native component is available.
C3_NativeMasked ==
    \A i \in InstanceIds :
        Rendered(i) /\ RNCMaskedView # "null" =>
            /\ ~HasVectorNodes(output[i])
            /\ ValidInput(i) =>
                  /\ output[i].type = "RNCMaskedView"
                  /\ Len(output[i].children) = 2
                  /\ LET overlay == output[i].children[1] IN
                       /\ IsBuilt(overlay)
                       /\ overlay.type = "View"
                       /\ overlay.props.pointerEvents = Str("none")
                       /\ overlay.props.style.fields.position = "absolute"
                       /\ overlay.props.style.fields.left = 0
                       /\ overlay.props.style.fields.right = 0
                       /\ overlay.props.style.fields.top = 0
                       /\ overlay.props.style.fields.bottom = 0
                       /\ overlay.children = <<MaskOf(i)>>
                  /\ output[i].children[2] = ChildrenOf(i)

\* C3 witness: a native render of a valid maskElement with children.
C3_Witness ==
    \E i \in InstanceIds :
        /\ Rendered(i) /\ RNCMaskedView # "null" /\ ValidInput(i)
        /\ "children" \in DOMAIN thisProps[i]
        /\ output[i].type = "RNCMaskedView"

\* C4: for a valid maskElement without the native component, the output
\* has exactly one mask definition, holding maskElement, and exactly one
\* mask consumer, whose reference names that definition's id, which holds
\* children and has overflowY auto; maskElement occurs only in the
\* definition and children only in the consumer.
C4_VectorMasked ==
    \A i \in InstanceIds :
        Rendered(i) /\ RNCMaskedView = "null" /\ ValidInput(i) =>
            LET nodes == Preorder(output[i])
                defs == MaskDefinitionsOf(output[i])
                uses == MaskConsumersOf(output[i])
            IN  /\ Cardinality(defs) = 1
                /\ Cardinality(uses) = 1
                /\ \A d \in defs, u \in uses :
                      /\ d # u
                      /\ Occurrences(MaskOf(i), nodes[d]) = 1
                      /\ Occurrences(MaskOf(i), output[i]) = 1
                      /\ IriTarget(nodes[u].props.mask) = nodes[d].props.id
                      /\ nodes[d].props.id # <<>>
                      /\ nodes[u].children = <<ChildrenOf(i)>>
                      /\ Occurrences(ChildrenOf(i), output[i]) = 1
                      /\ nodes[u].props.style.fields.overflowY = "auto"

\* C4 witness: an SVG render of a valid maskElement with children.
C4_Witness ==
    \E i \in InstanceIds :
        /\ Rendered(i) /\ RNCMaskedView = "null" /\ ValidInput(i)
        /\ "children" \in DOMAIN thisProps[i]
        /\ MaskDefinitionsOf(output[i]) # {}

\* C5 (as claimed): in each of the three output shapes every passthrough
\* prop the caller supplied is on the root node with the supplied value.
C5_PassthroughUnmodifiedOnRoot ==
    \A i \in InstanceIds :
        Rendered(i) =>
            \A k \in DOMAIN RestProps(thisProps[i]) :
                /\ k \in DOMAIN output[i].props
                /\ output[i].props[k] = thisProps[i][k]

\* The definitions in the document that a consumer's reference names:
\* the instances whose output defines a mask with the referenced id.
ResolvesTo(ref) ==
    {j \in InstanceIds :
        /\ Rendered(j)
        /\ \E d \in MaskDefinitionsOf(output[j]) :
              Preorder(output[j])[d].props.id = IriTarget(ref)}

\* C6 (as claimed): when two sibling instances both render a valid
\* maskElement through the SVG path into one document, their mask
\* definitions have distinct ids and each consumer's reference resolves to
\* its own instance's definition only.
C6_SiblingMasksDistinct ==
    \A i, j \in InstanceIds :
        /\ i # j
        /\ Rendered(i) /\ Rendered(j)
        /\ MaskDefinitionsOf(output[i]) # {}
        /\ MaskDefinitionsOf(output[j]) # {}
        => /\ \A d \in MaskDefinitionsOf(output[i]), e \in MaskDefinitionsOf(output[j]) :
                Preorder(output[i])[d].props.id # Preorder(output[j])[e].props.id
           /\ \A u \in MaskConsumersOf(output[i]) :
                ResolvesTo(Preorder(output[i])[u].props.mask) = {i}

IsMasked(tree) ==
    \/ TypeOf(tree) = "RNCMaskedView"
    \/ MaskDefinitionsOf(tree) # {}

\* C7: the output depends on the current props and the fixed availability
\* of the native component only: two instances given the same props have
\* the same output whatever their flags and histories, and a render of a
\* valid maskElement gives a masked shape and emits nothing, also after
\* renders of an invalid one.
C7_OutputFromPropsOnly ==
    \A i \in InstanceIds :
        Rendered(i) =>
            /\ \A j \in InstanceIds :
                  Rendered(j) /\ thisProps[j] = thisProps[i] => output[j] = output[i]
            /\ ValidInput(i) =>
                  /\ IsMasked(output[i])
                  /\ output[i] # UnmaskedTree(thisProps[i])
                  /\ renders[i][Len(renders[i])].emitted = 0

\* C7 witness: an instance rendered invalid, invalid, then valid, and is
\* masked; its sibling, which never warned, got the same props.
C7_Witness ==
    \E i, j \in InstanceIds :
        /\ i # j
        /\ Len(renders[i]) = 3
        /\ ~renders[i][1].valid /\ ~renders[i][2].valid /\ renders[i][3].valid
        /\ hasWarnedInvalidRenderMask[i] /\ ~hasWarnedInvalidRenderMask[j]
        /\ Rendered(j) /\ thisProps[j] = thisProps[i]
        /\ IsMasked(output[i])

\* C8 (as claimed): also when the diagnostic sink calls render again on
\* the same instance before the flag is set, an instance emits at most
\* one diagnostic.
C8_OneDiagnosticUnderReentry ==
    \A i \in InstanceIds : Diagnostics(i) <= 1

LastRender(i) == renders[i][Len(renders[i])]

\* C9: the flag starts false; in every state it is true exactly when the
\* instance has finished a render of an invalid maskElement, and exactly
\* when its diagnostic is in the log; no step resets it; a render of a
\* valid maskElement changes neither any flag nor the log.
C9_FlagMonotonic ==
    /\ \A i \in InstanceIds : ~hasWarnedInvalidRenderMask[i]
    /\ [](\A i \in InstanceIds :
            /\ hasWarnedInvalidRenderMask[i] <=> InvalidRenders(i) # {}
            /\ hasWarnedInvalidRenderMask[i] <=> Diagnostics(i) = 1)
    /\ [][\A i \in InstanceIds :
            /\ hasWarnedInvalidRenderMask[i] => hasWarnedInvalidRenderMask'[i]
            /\ (renders'[i] # renders[i] /\ renders'[i][Len(renders'[i])].valid) =>
                  /\ hasWarnedInvalidRenderMask' = hasWarnedInvalidRenderMask
                  /\ console' = console]_vars

\* C9 witness: the flag is set and the latest render, the third, was of a
\* valid maskElement.
C9_Witness ==
    \E i \in InstanceIds :
        /\ hasWarnedInvalidRenderMask[i]
        /\ Len(renders[i]) = 3
        /\ LastRender(i).valid

\* C10: a render of one instance leaves every other instance's flag as it
\* was; an instance that has rendered an invalid maskElement has emitted
\* its own diagnostic in its first such render, whether or not another
\* instance had warned; the log holds as many diagnostics as there are
\* instances that have rendered an invalid maskElement.
C10_InstancesIndependent ==
    /\ [](/\ Len(console) = Cardinality({i \in InstanceIds : InvalidRenders(i) # {}})
          /\ \A i \in InstanceIds :
                InvalidRenders(i) # {} =>
                    /\ Diagnostics(i) = 1
                    /\ renders[i][FirstInvalid(i)].emitted = 1)
    /\ [][\A i, j \in InstanceIds :
            renders'[i] # renders[i] /\ j # i =>
                hasWarnedInvalidRenderMask'[j] = hasWarnedInvalidRenderMask[j]]_vars

\* C10 witness: both instances have warned, the second after the first.
C10_Witness ==
    /\ Len(console) = 2
    /\ console[1].self # console[2].self
    /\ \A i \in InstanceIds : hasWarnedInvalidRenderMask[i]

=============================================================================
